---- MODULE Spec2Model ----
(***************************************************************************)
(* Model of the pack optimizer (internal/service/optimizer.go).            *)
(*                                                                         *)
(* One call of Optimize is a walk through the phases of the function:      *)
(* order-quantity validation, NormalizePackSizes, newPackingTable, the     *)
(* table fill (one step per iteration of the outer loop), the choice of    *)
(* the fulfillment total and the reconstruction of the breakdown.  Every   *)
(* function of the source is also an operator of the same name, so that a  *)
(* call can be evaluated on any argument.                                  *)
(*                                                                         *)
(* Go's int is 64 bits wide on the platforms the server is built for, and  *)
(* the validation compares its arguments with the largest int32.  The      *)
(* model checker's integers are 32 bits wide, so a Go int v is the record  *)
(* [hi, lo] with v = hi * 2^31 + lo and 0 <= lo <= 2^31 - 1.  Every value  *)
(* that has passed validation has hi = 0 and is used as the integer lo.    *)
(***************************************************************************)
EXTENDS Integers, Sequences, FiniteSets, TLC

VARIABLES pc, itemsOrdered, packSizes, normalized, table, total,
          chosenTotal, result,
          arrays, stored, mu, applied, gor, http

vars == <<pc, itemsOrdered, packSizes, normalized, table, total,
          chosenTotal, result, arrays, stored, mu, applied, gor, http>>

\* the state of a call of Optimize
callVars == <<pc, itemsOrdered, packSizes, normalized, table, total,
              chosenTotal, result>>

\* the state of the pack-size service, of its callers and of the HTTP handler
serverVars == <<arrays, stored, mu, applied, gor, http>>

(***************************************************************************)
(* Program constants.                                                      *)
(***************************************************************************)
maxInt32Value == 2147483647

maxTableEntries == 2000000

unset == -1

(***************************************************************************)
(* Bounds of the model.                                                    *)
(***************************************************************************)
MaxLen == 3

MaxSize == 5

MaxItems == 8

(***************************************************************************)
(* Go int values.                                                          *)
(***************************************************************************)
GoInt(v) ==
    IF v >= 0 THEN [hi |-> 0, lo |-> v]
              ELSE [hi |-> -1, lo |-> (v + maxInt32Value) + 1]

\* the Go int maxInt32Value + k, for k in 1..2^31
AboveInt32(k) == [hi |-> 1, lo |-> k - 1]

\* a < b on Go ints
Less(a, b) == a.hi < b.hi \/ (a.hi = b.hi /\ a.lo < b.lo)

\* the integer of a Go int in the int32 range
ToInt(a) == IF a.hi = 0 THEN a.lo ELSE (a.lo - maxInt32Value) - 1

\* the sum in 32 bits: above 2^31-1 it wraps to a negative value
AddMinusOne_Int32(a, b) ==
    IF a.lo - 1 > maxInt32Value - b.lo
    THEN [hi |-> -1, lo |-> ((a.lo - 1) - (maxInt32Value - b.lo)) - 1]
    ELSE [hi |-> 0, lo |-> (a.lo - 1) + b.lo]

\* int64(a) + int64(b) - 1 for a, b in 1..maxInt32Value
AddMinusOne(a, b) ==
    IF a.lo - 1 > maxInt32Value - b.lo
    THEN [hi |-> 1, lo |-> ((a.lo - 1) - (maxInt32Value - b.lo)) - 1]
    ELSE [hi |-> 0, lo |-> (a.lo - 1) + b.lo]

\* a + 1 on Go ints
PlusOne(a) ==
    IF a.lo = maxInt32Value THEN [hi |-> a.hi + 1, lo |-> 0]
                            ELSE [hi |-> a.hi, lo |-> a.lo + 1]

(***************************************************************************)
(* Errors.  A wrapped error keeps the error it wraps (is) and the values   *)
(* formatted into its message (args).                                      *)
(***************************************************************************)
NoError == [is |-> "nil", args |-> <<>>]

Err(kind, args) == [is |-> kind, args |-> args]

(***************************************************************************)
(* NormalizePackSizes                                                      *)
(***************************************************************************)
RECURSIVE InsertDescending(_, _)
\* s is descending; x is placed before the first element smaller than it
InsertDescending(s, x) ==
    IF s = <<>> THEN <<x>>
    ELSE IF Less(Head(s), x) THEN <<x>> \o s
    ELSE <<Head(s)>> \o InsertDescending(Tail(s), x)

\* SortDescending with the sort left out
SortDescending_Unsorted(s) == s

RECURSIVE SortDescending(_)
\* sort.Sort(sort.Reverse(sort.IntSlice(s)))
SortDescending(s) ==
    IF s = <<>> THEN <<>>
    ELSE InsertDescending(SortDescending(Tail(s)), Head(s))

RECURSIVE NormalizeLoop_KeepsDuplicates(_, _, _, _)
\* NormalizeLoop without the test of seen
NormalizeLoop_KeepsDuplicates(sizes, i, seen, acc) ==
    IF i > Len(sizes) THEN [err |-> NoError, sizes |-> acc]
    ELSE LET size == sizes[i] IN
         IF ~Less(GoInt(0), size)
         THEN [err |-> Err("ErrInvalidPackSizes", <<size>>), sizes |-> <<>>]
         ELSE IF Less(GoInt(maxInt32Value), size)
         THEN [err |-> Err("ErrInvalidPackSizes", <<size, GoInt(maxInt32Value)>>),
               sizes |-> <<>>]
         ELSE NormalizeLoop_KeepsDuplicates(sizes, i + 1, seen \cup {size},
                                            Append(acc, size))

RECURSIVE NormalizeLoop_FirstOnly(_, _, _, _)
\* NormalizeLoop validating the first element only
NormalizeLoop_FirstOnly(sizes, i, seen, acc) ==
    IF i > Len(sizes) THEN [err |-> NoError, sizes |-> acc]
    ELSE LET size == sizes[i] IN
         IF i = 1 /\ ~Less(GoInt(0), size)
         THEN [err |-> Err("ErrInvalidPackSizes", <<size>>), sizes |-> <<>>]
         ELSE IF i = 1 /\ Less(GoInt(maxInt32Value), size)
         THEN [err |-> Err("ErrInvalidPackSizes", <<size, GoInt(maxInt32Value)>>),
               sizes |-> <<>>]
         ELSE IF size \in seen
         THEN NormalizeLoop_FirstOnly(sizes, i + 1, seen, acc)
         ELSE NormalizeLoop_FirstOnly(sizes, i + 1, seen \cup {size},
                                      Append(acc, size))

RECURSIVE NormalizeLoop(_, _, _, _)
\* the range loop of NormalizePackSizes, from index i on
NormalizeLoop(sizes, i, seen, acc) ==
    IF i > Len(sizes) THEN [err |-> NoError, sizes |-> acc]
    ELSE LET size == sizes[i] IN
         IF ~Less(GoInt(0), size)
         THEN [err |-> Err("ErrInvalidPackSizes", <<size>>), sizes |-> <<>>]
         ELSE IF Less(GoInt(maxInt32Value), size)
         THEN [err |-> Err("ErrInvalidPackSizes", <<size, GoInt(maxInt32Value)>>),
               sizes |-> <<>>]
         ELSE IF size \in seen
         THEN NormalizeLoop(sizes, i + 1, seen, acc)
         ELSE NormalizeLoop(sizes, i + 1, seen \cup {size}, Append(acc, size))

\* NormalizePackSizes returning the sizes in the order of first occurrence
NormalizePackSizes_FirstOccurrenceOrder(sizes) ==
    IF Len(sizes) = 0
    THEN [err |-> Err("ErrInvalidPackSizes", <<>>), sizes |-> <<>>]
    ELSE LET r == NormalizeLoop(sizes, 1, {}, <<>>) IN
         IF r.err # NoError THEN r
         ELSE IF Len(r.sizes) = 0
         THEN [err |-> Err("ErrInvalidPackSizes", <<>>), sizes |-> <<>>]
         ELSE [err |-> NoError, sizes |-> r.sizes]

NormalizePackSizes(sizes) ==
    IF Len(sizes) = 0
    THEN [err |-> Err("ErrInvalidPackSizes", <<>>), sizes |-> <<>>]
    ELSE LET r == NormalizeLoop(sizes, 1, {}, <<>>) IN
         IF r.err # NoError THEN r
         ELSE IF Len(r.sizes) = 0
         THEN [err |-> Err("ErrInvalidPackSizes", <<>>), sizes |-> <<>>]
         ELSE [err |-> NoError, sizes |-> SortDescending(r.sizes)]

(***************************************************************************)
(* The DP table (type packingTable) and the Plan.                          *)
(***************************************************************************)
\* packingTable{}, the zero value
NoTable ==
    [itemsOrdered |-> 0, sortedPackSizes |-> <<>>, fulfillmentLimit |-> 0,
     minPacks |-> <<>>, prevTotal |-> <<>>, prevPack |-> <<>>,
     unreachablePacks |-> 0]

\* Plan{}, the zero value
NoPlan == [ItemsOrdered |-> 0, TotalItems |-> 0, TotalPacks |-> 0, Packs |-> <<>>]

\* len(t.minPacks)
TableLen(t) == Cardinality(DOMAIN t.minPacks)

\* RangeError refusing a table of exactly maxTableEntries entries
RangeError_AtLeast(fulfillmentLimit64) ==
    IF ~Less(GoInt(0), fulfillmentLimit64)
    THEN Err("ErrOptimizationTooLarge", <<>>)
    ELSE IF ~Less(PlusOne(fulfillmentLimit64), GoInt(maxTableEntries))
    THEN Err("ErrOptimizationTooLarge",
             <<PlusOne(fulfillmentLimit64), GoInt(maxTableEntries)>>)
    ELSE NoError

\* the range check of newPackingTable on fulfillmentLimit64
RangeError(fulfillmentLimit64) ==
    IF ~Less(GoInt(0), fulfillmentLimit64)
    THEN Err("ErrOptimizationTooLarge", <<>>)
    ELSE IF Less(GoInt(maxTableEntries), PlusOne(fulfillmentLimit64))
    THEN Err("ErrOptimizationTooLarge",
             <<PlusOne(fulfillmentLimit64), GoInt(maxTableEntries)>>)
    ELSE NoError

\* newPackingTable with the worst case counted in packs of the largest size
newPackingTable_WorstCaseByLargest(ordered, sortedPackSizes) ==
    LET largestPackSize == sortedPackSizes[1]
        fulfillmentLimit64 == AddMinusOne(ordered, largestPackSize)
        rangeErr == RangeError(fulfillmentLimit64)
        fulfillmentLimit == ToInt(fulfillmentLimit64)
        worstCasePacks == fulfillmentLimit \div ToInt(largestPackSize)
        unreachablePacks == worstCasePacks + 1
    IN  IF rangeErr # NoError THEN [table |-> NoTable, err |-> rangeErr]
        ELSE [table |->
                [itemsOrdered |-> ToInt(ordered),
                 sortedPackSizes |->
                    [i \in 1..Len(sortedPackSizes) |-> ToInt(sortedPackSizes[i])],
                 fulfillmentLimit |-> fulfillmentLimit,
                 minPacks |-> [i \in 0..fulfillmentLimit |->
                                  IF i = 0 THEN 0 ELSE unreachablePacks],
                 prevTotal |-> [i \in 0..fulfillmentLimit |->
                                  IF i = 0 THEN 0 ELSE unset],
                 prevPack |-> [i \in 0..fulfillmentLimit |->
                                  IF i = 0 THEN 0 ELSE unset],
                 unreachablePacks |-> unreachablePacks],
              err |-> NoError]

\* lines 123-135 of newPackingTable: the range check, before any allocation
fulfillmentRangeError(ordered, sortedPackSizes) ==
    RangeError(AddMinusOne(ordered, sortedPackSizes[1]))

newPackingTable(ordered, sortedPackSizes) ==
    LET largestPackSize == sortedPackSizes[1]
        smallestPackSize == sortedPackSizes[Len(sortedPackSizes)]
        fulfillmentLimit64 == AddMinusOne(ordered, largestPackSize)
        rangeErr == RangeError(fulfillmentLimit64)
        fulfillmentLimit == ToInt(fulfillmentLimit64)
        worstCasePacks == fulfillmentLimit \div ToInt(smallestPackSize)
        unreachablePacks == worstCasePacks + 1
    IN  IF rangeErr # NoError THEN [table |-> NoTable, err |-> rangeErr]
        ELSE [table |->
                [itemsOrdered |-> ToInt(ordered),
                 sortedPackSizes |->
                    [i \in 1..Len(sortedPackSizes) |-> ToInt(sortedPackSizes[i])],
                 fulfillmentLimit |-> fulfillmentLimit,
                 minPacks |-> [i \in 0..fulfillmentLimit |->
                                  IF i = 0 THEN 0 ELSE unreachablePacks],
                 prevTotal |-> [i \in 0..fulfillmentLimit |->
                                  IF i = 0 THEN 0 ELSE unset],
                 prevPack |-> [i \in 0..fulfillmentLimit |->
                                  IF i = 0 THEN 0 ELSE unset],
                 unreachablePacks |-> unreachablePacks],
              err |-> NoError]

\* TryPack replacing the recorded pack on an equal count as well
TryPack_AllowsTies(t, tot, packSize) ==
    LET predecessor == tot - packSize IN
    IF predecessor < 0 \/ t.minPacks[predecessor] = t.unreachablePacks
    THEN t
    ELSE LET candidate == t.minPacks[predecessor] + 1 IN
         IF candidate <= t.minPacks[tot]
         THEN [t EXCEPT !.minPacks[tot] = candidate,
                        !.prevTotal[tot] = predecessor,
                        !.prevPack[tot] = packSize]
         ELSE t

\* TryPack with the count of the predecessor as the candidate
TryPack_NoIncrement(t, tot, packSize) ==
    LET predecessor == tot - packSize IN
    IF predecessor < 0 \/ t.minPacks[predecessor] = t.unreachablePacks
    THEN t
    ELSE LET candidate == t.minPacks[predecessor] IN
         IF candidate < t.minPacks[tot]
         THEN [t EXCEPT !.minPacks[tot] = candidate,
                        !.prevTotal[tot] = predecessor,
                        !.prevPack[tot] = packSize]
         ELSE t

\* TryPack leaving prevPack as it was
TryPack_NoPrevPack(t, tot, packSize) ==
    LET predecessor == tot - packSize IN
    IF predecessor < 0 \/ t.minPacks[predecessor] = t.unreachablePacks
    THEN t
    ELSE LET candidate == t.minPacks[predecessor] + 1 IN
         IF candidate < t.minPacks[tot]
         THEN [t EXCEPT !.minPacks[tot] = candidate,
                        !.prevTotal[tot] = predecessor]
         ELSE t

\* TryPack leaving prevTotal as it was
TryPack_NoPrevTotal(t, tot, packSize) ==
    LET predecessor == tot - packSize IN
    IF predecessor < 0 \/ t.minPacks[predecessor] = t.unreachablePacks
    THEN t
    ELSE LET candidate == t.minPacks[predecessor] + 1 IN
         IF candidate < t.minPacks[tot]
         THEN [t EXCEPT !.minPacks[tot] = candidate,
                        !.prevPack[tot] = packSize]
         ELSE t

\* TryPack recording every reachable predecessor, better or not
TryPack_NoComparison(t, tot, packSize) ==
    LET predecessor == tot - packSize IN
    IF predecessor < 0 \/ t.minPacks[predecessor] = t.unreachablePacks
    THEN t
    ELSE [t EXCEPT !.minPacks[tot] = t.minPacks[predecessor] + 1,
                   !.prevTotal[tot] = predecessor,
                   !.prevPack[tot] = packSize]

\* the body of the inner loop of buildOptimalPackingTable for one packSize
TryPack(t, tot, packSize) ==
    LET predecessor == tot - packSize IN
    IF predecessor < 0 \/ t.minPacks[predecessor] = t.unreachablePacks
    THEN t
    ELSE LET candidate == t.minPacks[predecessor] + 1 IN
         IF candidate < t.minPacks[tot]
         THEN [t EXCEPT !.minPacks[tot] = candidate,
                        !.prevTotal[tot] = predecessor,
                        !.prevPack[tot] = packSize]
         ELSE t

\* an inner loop that tries the largest pack size only
FillPacks_LargestOnly(t, tot, j) == TryPack(t, tot, t.sortedPackSizes[1])

RECURSIVE FillPacks(_, _, _)
\* the inner loop of buildOptimalPackingTable, from pack index j on
FillPacks(t, tot, j) ==
    IF j > Len(t.sortedPackSizes) THEN t
    ELSE FillPacks(TryPack(t, tot, t.sortedPackSizes[j]), tot, j + 1)

\* one iteration of the outer loop of buildOptimalPackingTable
FillTotal(t, tot) == FillPacks(t, tot, 1)

RECURSIVE FillRange(_, _, _)
\* the iterations lo..hi of the outer loop of buildOptimalPackingTable, in
\* ascending order: those of the lower half, then, on the table they leave
\* (entry mid of which holds a count or the sentinel), those of the upper
\* half
FillRange(t, lo, hi) ==
    IF lo > hi THEN t
    ELSE IF lo = hi THEN FillTotal(t, lo)
    ELSE LET mid == (lo + hi) \div 2
             lower == FillRange(t, lo, mid)
         IN  IF lower.minPacks[mid] >= 0
             THEN FillRange(lower, mid + 1, hi)
             ELSE lower

\* the outer loop of buildOptimalPackingTable, from tot on
FillFrom(t, tot) == FillRange(t, tot, TableLen(t) - 1)

buildOptimalPackingTable(t) == FillFrom(t, 1)

\* a loop that returns the last total of tot..len(t.minPacks)-1 whose entry
\* is not the sentinel
ChooseFrom_LastReached(t, tot) ==
    LET found == {u \in tot..(TableLen(t) - 1) :
                     t.minPacks[u] # t.unreachablePacks}
    IN  IF found # {}
        THEN [total |-> CHOOSE u \in found : \A v \in found : u >= v,
              err |-> NoError]
        ELSE [total |-> -1, err |-> Err("errNoPackingPlan", <<>>)]

\* the loop of chooseFulfillmentTotal, from tot on: it returns at the first
\* total of tot..len(t.minPacks)-1 whose entry is not the sentinel, which is
\* the least of them
ChooseFrom(t, tot) ==
    LET found == {u \in tot..(TableLen(t) - 1) :
                     t.minPacks[u] # t.unreachablePacks}
    IN  IF found # {}
        THEN [total |-> CHOOSE u \in found : \A v \in found : u <= v,
              err |-> NoError]
        ELSE [total |-> -1, err |-> Err("errNoPackingPlan", <<>>)]

\* chooseFulfillmentTotal scanning from the total after itemsOrdered
chooseFulfillmentTotal_SkipsExact(t) == ChooseFrom(t, t.itemsOrdered + 1)

\* chooseFulfillmentTotal scanning from the first total of the table
chooseFulfillmentTotal_FromOne(t) == ChooseFrom(t, 1)

chooseFulfillmentTotal(t) == ChooseFrom(t, t.itemsOrdered)

\* packCounts[size] of a Go map: the zero value when the key is absent
CountOf(packCounts, size) ==
    IF size \in DOMAIN packCounts THEN packCounts[size] ELSE 0

\* Increment storing 1 instead of adding 1
Increment_Overwrite(packCounts, size) ==
    [k \in DOMAIN packCounts \cup {size} |->
        IF k = size THEN 1 ELSE packCounts[k]]

\* packCounts[size]++
Increment(packCounts, size) ==
    [k \in DOMAIN packCounts \cup {size} |->
        IF k = size THEN CountOf(packCounts, size) + 1 ELSE packCounts[k]]

RECURSIVE Backtrack(_, _, _)
\* the first loop of buildBreakdown, from tot on
Backtrack(t, tot, packCounts) ==
    IF tot > 0
    THEN LET packSize == t.prevPack[tot] IN
         IF packSize <= 0
         THEN [packCounts |-> packCounts, err |-> Err("errReconstructPlan", <<>>)]
         ELSE Backtrack(t, t.prevTotal[tot], Increment(packCounts, packSize))
    ELSE [packCounts |-> packCounts, err |-> NoError]

RECURSIVE Collect_KeepsZero(_, _, _, _)
\* Collect without the test count > 0
Collect_KeepsZero(t, packCounts, j, breakdown) ==
    IF j > Len(t.sortedPackSizes) THEN breakdown
    ELSE LET size == t.sortedPackSizes[j]
             count == CountOf(packCounts, size)
         IN  Collect_KeepsZero(t, packCounts, j + 1,
                               Append(breakdown, [Size |-> size, Count |-> count]))

RECURSIVE Collect(_, _, _, _)
\* the second loop of buildBreakdown, from pack index j on
Collect(t, packCounts, j, breakdown) ==
    IF j > Len(t.sortedPackSizes) THEN breakdown
    ELSE LET size == t.sortedPackSizes[j]
             count == CountOf(packCounts, size)
         IN  IF count > 0
             THEN Collect(t, packCounts, j + 1,
                          Append(breakdown, [Size |-> size, Count |-> count]))
             ELSE Collect(t, packCounts, j + 1, breakdown)

buildBreakdown(t, chosen) ==
    LET b == Backtrack(t, chosen, <<>>) IN
    IF b.err # NoError THEN [breakdown |-> <<>>, err |-> b.err]
    ELSE [breakdown |-> Collect(t, b.packCounts, 1, <<>>), err |-> NoError]

\* ItemsError without the check against maxInt32Value
ItemsError_NoUpperBound(ordered) ==
    IF ~Less(GoInt(0), ordered) THEN Err("ErrInvalidItemsOrdered", <<>>)
    ELSE NoError

\* the order-quantity check at the head of Optimize
ItemsError(ordered) ==
    IF ~Less(GoInt(0), ordered) THEN Err("ErrInvalidItemsOrdered", <<>>)
    ELSE IF Less(GoInt(maxInt32Value), ordered)
    THEN Err("ErrInvalidItemsOrdered", <<ordered, GoInt(maxInt32Value)>>)
    ELSE NoError

\* the Plan assembled at the end of Optimize
MakePlan(ordered, t, chosen, breakdown) ==
    [ItemsOrdered |-> ToInt(ordered), TotalItems |-> chosen,
     TotalPacks |-> t.minPacks[chosen], Packs |-> breakdown]

Optimize(ordered, sizes) ==
    LET itemsErr == ItemsError(ordered) IN
    IF itemsErr # NoError THEN [plan |-> NoPlan, err |-> itemsErr]
    ELSE LET n == NormalizePackSizes(sizes) IN
    IF n.err # NoError THEN [plan |-> NoPlan, err |-> n.err]
    ELSE LET nt == newPackingTable(ordered, n.sizes) IN
    IF nt.err # NoError THEN [plan |-> NoPlan, err |-> nt.err]
    ELSE LET t == buildOptimalPackingTable(nt.table)
             c == chooseFulfillmentTotal(t)
         IN
    IF c.err # NoError THEN [plan |-> NoPlan, err |-> c.err]
    ELSE LET b == buildBreakdown(t, c.total) IN
    IF b.err # NoError THEN [plan |-> NoPlan, err |-> b.err]
    ELSE [plan |-> MakePlan(ordered, t, c.total, b.breakdown), err |-> NoError]

(***************************************************************************)
(* The pack-size service (internal/service/pack_size_service.go).  A Go    *)
(* slice is a reference to a backing array: arrays maps the address of     *)
(* every live array to its elements, and a slice is the address of its     *)
(* array (0 is the nil slice).  Arrays that nothing refers to are swept.    *)
(***************************************************************************)
defaultPackSizes == <<250, 500, 1000, 2000, 5000>>

\* a list of Go ints
GoInts(s) == [i \in DOMAIN s |-> GoInt(s[i])]

\* the goroutines that call the service
Goroutines == {"g1", "g2"}

\* as many addresses as slices can be alive at once: s.packSizes, and for
\* every goroutine the slice it builds and the slice it keeps
Addrs == 1..(2 * Cardinality(Goroutines) + 1)

\* the address of a new array
NewAddr(heap) ==
    CHOOSE a \in Addrs \ DOMAIN heap : \A b \in Addrs \ DOMAIN heap : a <= b

\* make([]int, n)
make(n) == [i \in 1..n |-> GoInt(0)]

\* copy(dst, src): the elements of dst after the call
copy(dst, src) ==
    [i \in 1..Len(dst) |-> IF i <= Len(src) THEN src[i] ELSE dst[i]]

\* a goroutine that is not in a call of the service: arg is the argument of
\* the SetPackSizes in progress and err the error of the last one, buf the
\* slice a call in progress builds, held the slice the last GetPackSizes
\* returned; saw (the argument of the last assignment to s.packSizes when the
\* read lock was taken) and snap (what the goroutine itself put into held)
\* are history
IdleGoroutine ==
    [pc |-> "idle", arg |-> <<>>, buf |-> 0, held |-> 0, err |-> NoError,
     saw |-> <<>>, snap |-> <<>>]

\* the addresses that s.packSizes and the goroutines refer to
Referenced(st, gr) ==
    ({st} \cup {gr[g].buf : g \in Goroutines}
          \cup {gr[g].held : g \in Goroutines}) \ {0}

\* the heap without the arrays nothing refers to
Sweep(heap, st, gr) ==
    [a \in DOMAIN heap \cap Referenced(st, gr) |-> heap[a]]

\* the connections the server handles requests on, one goroutine each
Conns == {"c1", "c2"}

\* the handler of a connection between two requests
IdleHandler ==
    [pc |-> "idle", request |-> <<>>, response |-> <<>>, outcome |-> <<>>]

\* GetPackSizeService: the service built from defaultPackSizes
NewInMemoryPackSizeService(initialPackSizes) ==
    NormalizePackSizes(initialPackSizes)

(***************************************************************************)
(* The arguments a caller passes.                                          *)
(***************************************************************************)
\* order quantities: invalid, small, and too large for a table
ItemsDomain ==
    {GoInt(v) : v \in -1..MaxItems}
        \cup {GoInt(maxTableEntries), GoInt(maxInt32Value), AboveInt32(1)}

\* pack sizes: invalid, small, and too large for a table
SizeDomain ==
    {GoInt(v) : v \in -1..MaxSize} \cup {GoInt(maxInt32Value), AboveInt32(1)}

PackSizeLists == UNION {[1..k -> SizeDomain] : k \in 0..MaxLen}

(***************************************************************************)
(* One call of Optimize, phase by phase.                                   *)
(***************************************************************************)
Init ==
    /\ pc = "idle"
    /\ itemsOrdered = GoInt(0)
    /\ packSizes = <<>>
    /\ normalized = <<>>
    /\ table = NoTable
    /\ total = 0
    /\ chosenTotal = 0
    /\ result = [plan |-> NoPlan, err |-> NoError]
    /\ arrays = (1 :> NewInMemoryPackSizeService(GoInts(defaultPackSizes)).sizes)
    /\ stored = 1
    /\ mu = [readers |-> {}, writer |-> "none"]
    /\ applied = GoInts(defaultPackSizes)
    /\ gor = [g \in Goroutines |-> IdleGoroutine]
    /\ http = [c \in Conns |-> IdleHandler]

\* return Plan{}, err
Fail(e) ==
    /\ pc' = "done"
    /\ result' = [plan |-> NoPlan, err |-> e]

\* a caller invokes Optimize(ordered, sizes)
Call ==
    /\ pc = "idle"
    /\ \E ordered \in ItemsDomain, sizes \in PackSizeLists :
          /\ itemsOrdered' = ordered
          /\ packSizes' = sizes
    /\ pc' = "validate"
    /\ UNCHANGED <<normalized, table, total, chosenTotal, result>>
    /\ UNCHANGED serverVars

\* optimizer.go 68-73
ValidateItems ==
    /\ pc = "validate"
    /\ IF ItemsError(itemsOrdered) # NoError
       THEN Fail(ItemsError(itemsOrdered))
       ELSE pc' = "normalize" /\ UNCHANGED result
    /\ UNCHANGED <<itemsOrdered, packSizes, normalized, table, total, chosenTotal>>
    /\ UNCHANGED serverVars

\* optimizer.go 75-78
Normalize ==
    /\ pc = "normalize"
    /\ LET n == NormalizePackSizes(packSizes) IN
       IF n.err # NoError
       THEN Fail(n.err) /\ UNCHANGED normalized
       ELSE pc' = "newTable" /\ normalized' = n.sizes /\ UNCHANGED result
    /\ UNCHANGED <<itemsOrdered, packSizes, table, total, chosenTotal>>
    /\ UNCHANGED serverVars

\* optimizer.go 80-83, and the initialisation of the loop of line 172
NewTable ==
    /\ pc = "newTable"
    /\ LET nt == newPackingTable(itemsOrdered, normalized) IN
       IF nt.err # NoError
       THEN Fail(nt.err) /\ UNCHANGED <<table, total>>
       ELSE pc' = "fill" /\ table' = nt.table /\ total' = 1 /\ UNCHANGED result
    /\ UNCHANGED <<itemsOrdered, packSizes, normalized, chosenTotal>>
    /\ UNCHANGED serverVars

\* one iteration of the outer loop of buildOptimalPackingTable
FillStep ==
    /\ pc = "fill"
    /\ total < TableLen(table)
    /\ table' = FillTotal(table, total)
    /\ total' = total + 1
    /\ UNCHANGED <<pc, itemsOrdered, packSizes, normalized, chosenTotal, result>>
    /\ UNCHANGED serverVars

\* the outer loop of buildOptimalPackingTable ends
FillDone ==
    /\ pc = "fill"
    /\ ~(total < TableLen(table))
    /\ pc' = "choose"
    /\ UNCHANGED <<itemsOrdered, packSizes, normalized, table, total, chosenTotal,
                   result>>
    /\ UNCHANGED serverVars

\* optimizer.go 86-89
Choose ==
    /\ pc = "choose"
    /\ LET c == chooseFulfillmentTotal(table) IN
       IF c.err # NoError
       THEN Fail(c.err) /\ UNCHANGED chosenTotal
       ELSE pc' = "breakdown" /\ chosenTotal' = c.total /\ UNCHANGED result
    /\ UNCHANGED <<itemsOrdered, packSizes, normalized, table, total>>
    /\ UNCHANGED serverVars

\* optimizer.go 91-101
Breakdown ==
    /\ pc = "breakdown"
    /\ LET b == buildBreakdown(table, chosenTotal) IN
       IF b.err # NoError
       THEN Fail(b.err)
       ELSE /\ pc' = "done"
            /\ result' = [plan |-> MakePlan(itemsOrdered, table, chosenTotal,
                                            b.breakdown),
                          err |-> NoError]
    /\ UNCHANGED <<itemsOrdered, packSizes, normalized, table, total, chosenTotal>>
    /\ UNCHANGED serverVars

\* the call has returned; its table is garbage and the caller may call again
Return ==
    /\ pc = "done"
    /\ pc' = "idle"
    /\ itemsOrdered' = GoInt(0)
    /\ packSizes' = <<>>
    /\ normalized' = <<>>
    /\ table' = NoTable
    /\ total' = 0
    /\ chosenTotal' = 0
    /\ result' = [plan |-> NoPlan, err |-> NoError]
    /\ UNCHANGED serverVars

Next ==
    \/ Call
    \/ ValidateItems
    \/ Normalize
    \/ NewTable
    \/ FillStep
    \/ FillDone
    \/ Choose
    \/ Breakdown
    \/ Return

Spec == Init /\ [][Next]_vars

(***************************************************************************)
(* Calls around the largest table.  A table of about maxTableEntries       *)
(* entries is never built here: such a call is followed up to the range    *)
(* check of newPackingTable (lines 123-135), which decides whether the     *)
(* call fails with ErrOptimizationTooLarge, and no further.                *)
(***************************************************************************)
LimitItems ==
    {GoInt(v) : v \in {1, 2, maxTableEntries - 2, maxTableEntries - 1,
                       maxTableEntries, maxInt32Value}}

LimitSizes ==
    {GoInt(v) : v \in {1, 2, maxTableEntries - 2, maxTableEntries - 1,
                       maxTableEntries, maxInt32Value}}

LimitLists == UNION {[1..k -> LimitSizes] : k \in 1..2}

\* a caller invokes Optimize with arguments around the largest table
CallAtLimit ==
    /\ pc = "idle"
    /\ \E ordered \in LimitItems, sizes \in LimitLists :
          /\ itemsOrdered' = ordered
          /\ packSizes' = sizes
    /\ pc' = "limit"
    /\ UNCHANGED <<normalized, table, total, chosenTotal, result>>
    /\ UNCHANGED serverVars

\* optimizer.go 68-83 with newPackingTable up to line 135
CheckLimit ==
    /\ pc = "limit"
    /\ pc' = "limited"
    /\ LET n == NormalizePackSizes(packSizes) IN
       IF ItemsError(itemsOrdered) # NoError
       THEN /\ result' = [plan |-> NoPlan, err |-> ItemsError(itemsOrdered)]
            /\ UNCHANGED normalized
       ELSE IF n.err # NoError
       THEN /\ result' = [plan |-> NoPlan, err |-> n.err]
            /\ UNCHANGED normalized
       ELSE /\ result' = [plan |-> NoPlan,
                          err |-> fulfillmentRangeError(itemsOrdered, n.sizes)]
            /\ normalized' = n.sizes
    /\ UNCHANGED <<itemsOrdered, packSizes, table, total, chosenTotal>>
    /\ UNCHANGED serverVars

\* the call around the largest table is left
LeaveLimit ==
    /\ pc = "limited"
    /\ pc' = "idle"
    /\ itemsOrdered' = GoInt(0)
    /\ packSizes' = <<>>
    /\ normalized' = <<>>
    /\ result' = [plan |-> NoPlan, err |-> NoError]
    /\ UNCHANGED <<table, total, chosenTotal>>
    /\ UNCHANGED serverVars

NextLimit ==
    \/ Call
    \/ ValidateItems
    \/ Normalize
    \/ NewTable
    \/ FillStep
    \/ FillDone
    \/ Choose
    \/ Breakdown
    \/ Return
    \/ CallAtLimit
    \/ CheckLimit
    \/ LeaveLimit

SpecLimit == Init /\ [][NextLimit]_vars

(***************************************************************************)
(* The calls of TestOptimize_ChallengeExamples and TestOptimize_EdgeCases  *)
(* that the documentation lists, with the Plan each test expects.          *)
(***************************************************************************)
\* a breakdown entry
Pack(size, count) == [Size |-> size, Count |-> count]

Scenarios ==
    {[ordered |-> 1, sizes |-> <<250, 500, 1000, 2000, 5000>>,
      plan |-> [ItemsOrdered |-> 1, TotalItems |-> 250, TotalPacks |-> 1,
                Packs |-> <<Pack(250, 1)>>]],
     [ordered |-> 251, sizes |-> <<250, 500, 1000, 2000, 5000>>,
      plan |-> [ItemsOrdered |-> 251, TotalItems |-> 500, TotalPacks |-> 1,
                Packs |-> <<Pack(500, 1)>>]],
     [ordered |-> 501, sizes |-> <<250, 500, 1000, 2000, 5000>>,
      plan |-> [ItemsOrdered |-> 501, TotalItems |-> 750, TotalPacks |-> 2,
                Packs |-> <<Pack(500, 1), Pack(250, 1)>>]],
     [ordered |-> 12001, sizes |-> <<250, 500, 1000, 2000, 5000>>,
      plan |-> [ItemsOrdered |-> 12001, TotalItems |-> 12250, TotalPacks |-> 4,
                Packs |-> <<Pack(5000, 2), Pack(2000, 1), Pack(250, 1)>>]],
     [ordered |-> 13, sizes |-> <<6, 10>>,
      plan |-> [ItemsOrdered |-> 13, TotalItems |-> 16, TotalPacks |-> 2,
                Packs |-> <<Pack(10, 1), Pack(6, 1)>>]],
     [ordered |-> 11, sizes |-> <<4, 6, 9>>,
      plan |-> [ItemsOrdered |-> 11, TotalItems |-> 12, TotalPacks |-> 2,
                Packs |-> <<Pack(6, 2)>>]]}

\* a test invokes Optimize with the arguments of a scenario
CallScenario ==
    /\ pc = "idle"
    /\ \E s \in Scenarios :
          /\ itemsOrdered' = GoInt(s.ordered)
          /\ packSizes' = [i \in 1..Len(s.sizes) |-> GoInt(s.sizes[i])]
    /\ pc' = "validate"
    /\ UNCHANGED <<normalized, table, total, chosenTotal, result>>
    /\ UNCHANGED serverVars

NextScenarios ==
    \/ CallScenario
    \/ ValidateItems
    \/ Normalize
    \/ NewTable
    \/ FillStep
    \/ FillDone
    \/ Choose
    \/ Breakdown
    \/ Return

SpecScenarios == Init /\ [][NextScenarios]_vars

(***************************************************************************)
(* The pack-size service under concurrent callers.  GetPackSizes and       *)
(* SetPackSizes are walked statement by statement, so that calls of        *)
(* different goroutines interleave wherever the mutex lets them.            *)
(***************************************************************************)
\* the arguments callers pass to SetPackSizes
SetArgs ==
    {GoInts(<<10, 20>>), GoInts(<<250>>), GoInts(<<0, 20>>),
     <<GoInt(10), AboveInt32(1)>>, <<>>}

\* the values a caller writes into a slice it was given
MutateValues == {GoInt(7)}

\* the elements of a slice a caller writes: the first and the last
MutateIndexes(slice) == {i \in DOMAIN slice : i = 1 \/ i = Len(slice)}

\* GetPackSizes: s.mu.RLock(); the caller has let go of the slice of its
\* previous call
GetRLock(g) ==
    /\ gor[g].pc = "idle"
    /\ mu.writer = "none"
    /\ mu' = [mu EXCEPT !.readers = @ \cup {g}]
    /\ gor' = [gor EXCEPT ![g].pc = "get_locked", ![g].saw = applied,
                          ![g].held = 0, ![g].snap = <<>>]
    /\ arrays' = Sweep(arrays, stored, gor')
    /\ UNCHANGED <<stored, applied, http>>
    /\ UNCHANGED callVars

\* GetPackSizes: result := make([]int, len(s.packSizes))
GetMake(g) ==
    /\ gor[g].pc = "get_locked"
    /\ LET a == NewAddr(arrays) IN
          /\ arrays' = arrays @@ (a :> make(Len(arrays[stored])))
          /\ gor' = [gor EXCEPT ![g].pc = "get_made", ![g].buf = a]
    /\ UNCHANGED <<stored, mu, applied, http>>
    /\ UNCHANGED callVars

\* GetPackSizes: copy(result, s.packSizes)
GetCopy(g) ==
    /\ gor[g].pc = "get_made"
    /\ arrays' = [arrays EXCEPT ![gor[g].buf] = copy(@, arrays[stored])]
    /\ gor' = [gor EXCEPT ![g].pc = "get_copied"]
    /\ UNCHANGED <<stored, mu, applied, http>>
    /\ UNCHANGED callVars

\* GetPackSizes returning s.packSizes itself
GetReturn_StoredSlice(g) ==
    /\ gor[g].pc = "get_copied"
    /\ mu' = [mu EXCEPT !.readers = @ \ {g}]
    /\ gor' = [gor EXCEPT ![g].pc = "idle", ![g].held = stored,
                          ![g].buf = 0, ![g].snap = arrays[stored],
                          ![g].saw = <<>>]
    /\ arrays' = Sweep(arrays, stored, gor')
    /\ UNCHANGED <<stored, applied, http>>
    /\ UNCHANGED callVars

\* GetPackSizes: return result, and the deferred s.mu.RUnlock(); the caller
\* keeps the slice
GetReturn(g) ==
    /\ gor[g].pc = "get_copied"
    /\ mu' = [mu EXCEPT !.readers = @ \ {g}]
    /\ gor' = [gor EXCEPT ![g].pc = "idle", ![g].held = gor[g].buf,
                          ![g].buf = 0, ![g].snap = arrays[gor[g].buf],
                          ![g].saw = <<>>]
    /\ UNCHANGED <<arrays, stored, applied, http>>
    /\ UNCHANGED callVars

\* SetPackSizes assigning s.packSizes before it looks at the error
SetNormalize_AssignsFirst(g) ==
    /\ gor[g].pc = "idle"
    /\ \E sizes \in SetArgs :
          LET n == NormalizePackSizes(sizes)
              a == NewAddr(arrays)
          IN  IF n.err # NoError
              THEN /\ gor' = [gor EXCEPT ![g].err = n.err]
                   /\ stored' = a
                   /\ arrays' = Sweep(arrays @@ (a :> n.sizes), a, gor')
              ELSE /\ arrays' = arrays @@ (a :> n.sizes)
                   /\ gor' = [gor EXCEPT ![g].pc = "set_normalized",
                                         ![g].arg = sizes, ![g].buf = a,
                                         ![g].err = NoError]
                   /\ UNCHANGED stored
    /\ UNCHANGED <<mu, applied, http>>
    /\ UNCHANGED callVars

\* SetPackSizes: normalized, err := NormalizePackSizes(packSizes), and the
\* return of the error
SetNormalize(g) ==
    /\ gor[g].pc = "idle"
    /\ \E sizes \in SetArgs :
          LET n == NormalizePackSizes(sizes) IN
          IF n.err # NoError
          THEN /\ gor' = [gor EXCEPT ![g].err = n.err]
               /\ UNCHANGED arrays
          ELSE LET a == NewAddr(arrays) IN
               /\ arrays' = arrays @@ (a :> n.sizes)
               /\ gor' = [gor EXCEPT ![g].pc = "set_normalized",
                                     ![g].arg = sizes, ![g].buf = a,
                                     ![g].err = NoError]
    /\ UNCHANGED <<stored, mu, applied, http>>
    /\ UNCHANGED callVars

\* a lock that does not wait for the readers
SetLock_IgnoresReaders(g) ==
    /\ gor[g].pc = "set_normalized"
    /\ mu.writer = "none"
    /\ mu' = [mu EXCEPT !.writer = g]
    /\ gor' = [gor EXCEPT ![g].pc = "set_locked"]
    /\ UNCHANGED <<arrays, stored, applied, http>>
    /\ UNCHANGED callVars

\* SetPackSizes: s.mu.Lock()
SetLock(g) ==
    /\ gor[g].pc = "set_normalized"
    /\ mu.readers = {}
    /\ mu.writer = "none"
    /\ mu' = [mu EXCEPT !.writer = g]
    /\ gor' = [gor EXCEPT ![g].pc = "set_locked"]
    /\ UNCHANGED <<arrays, stored, applied, http>>
    /\ UNCHANGED callVars

\* SetPackSizes: s.packSizes = normalized
SetAssign(g) ==
    /\ gor[g].pc = "set_locked"
    /\ stored' = gor[g].buf
    /\ applied' = gor[g].arg
    /\ gor' = [gor EXCEPT ![g].pc = "set_assigned", ![g].buf = 0]
    /\ arrays' = Sweep(arrays, stored', gor')
    /\ UNCHANGED <<mu, http>>
    /\ UNCHANGED callVars

\* SetPackSizes: s.mu.Unlock() and return nil
SetUnlock(g) ==
    /\ gor[g].pc = "set_assigned"
    /\ mu' = [mu EXCEPT !.writer = "none"]
    /\ gor' = [gor EXCEPT ![g].pc = "idle", ![g].arg = <<>>]
    /\ UNCHANGED <<arrays, stored, applied, http>>
    /\ UNCHANGED callVars

\* a caller writes into the slice GetPackSizes returned to it
Mutate(g) ==
    /\ gor[g].pc = "idle"
    /\ gor[g].held # 0
    /\ \E i \in MutateIndexes(arrays[gor[g].held]), v \in MutateValues :
          /\ arrays[gor[g].held][i] # v
          /\ arrays' = [arrays EXCEPT ![gor[g].held][i] = v]
          /\ gor' = [gor EXCEPT ![g].snap[i] = v]
    /\ UNCHANGED <<stored, mu, applied, http>>
    /\ UNCHANGED callVars

NextRegistry ==
    \E g \in Goroutines :
        \/ GetRLock(g)
        \/ GetMake(g)
        \/ GetCopy(g)
        \/ GetReturn(g)
        \/ SetNormalize(g)
        \/ SetLock(g)
        \/ SetAssign(g)
        \/ SetUnlock(g)
        \/ Mutate(g)

SpecRegistry == Init /\ [][NextRegistry]_vars

(***************************************************************************)
(* The HTTP handler (internal/api).  The server runs one goroutine per     *)
(* connection, so the handlers of two requests interleave at every call of *)
(* the service.  A call of the service is one step here (it runs under the *)
(* lock of the service; its statements are the actions of SpecRegistry),   *)
(* and so is what a handler does on its own between two calls.  A PUT to   *)
(* /api/pack-sizes calls the service twice, SetPackSizes and then          *)
(* GetPackSizes, and other handlers run between the two.                   *)
(*                                                                         *)
(* A request body is what the decoder reads first (a JSON object, the JSON *)
(* value null, some other or malformed JSON, or nothing at all), whether   *)
(* anything but white space follows it, and, for an object, the names of   *)
(* its fields with the values of items_ordered and pack_sizes.             *)
(***************************************************************************)
StatusOK == 200
StatusBadRequest == 400
StatusMethodNotAllowed == 405
StatusInternalServerError == 500

\* the text of a message
Text(s) == [is |-> s, args |-> <<>>]

\* writeJSON(w, status, data)
writeJSON(status, data) == [status |-> status, body |-> data]

\* writeError(w, status, message)
writeError(status, message) == writeJSON(status, [error |-> message])

\* var req optimizeRequest
optimizeRequest == [items_ordered |-> GoInt(0)]

\* var req packSizesPayload
packSizesPayload == [pack_sizes |-> <<>>]

\* decoder.Decode(dst) with DisallowUnknownFields: null leaves dst as it is
\* and is no error; an object sets the fields of dst it names, and a name
\* that dst does not have is an error that is kept while decoding goes on
Decode(body, dst) ==
    IF body.json = "none" THEN [err |-> Err("json", <<"EOF">>), dst |-> dst]
    ELSE IF body.json = "null" THEN [err |-> NoError, dst |-> dst]
    ELSE IF body.json # "object"
    THEN [err |-> Err("json", <<"cannot unmarshal">>), dst |-> dst]
    ELSE [err |-> IF body.names \subseteq DOMAIN dst THEN NoError
                  ELSE Err("json", <<"unknown field">>),
          dst |-> [f \in DOMAIN dst |->
                      IF f \in body.names THEN body[f] ELSE dst[f]]]

\* decodeJSON: the first Decode fills dst, the second must find the end of
\* the body
decodeJSON(body, dst) ==
    LET first == Decode(body, dst) IN
    IF first.err # NoError THEN first
    ELSE IF body.trailing
    THEN [err |-> Err("json", <<"request body must contain one JSON object">>),
          dst |-> first.dst]
    ELSE first

\* GetPackSizes, as one uninterrupted call
GetPackSizes == copy(make(Len(arrays[stored])), arrays[stored])

\* the errors the return statements of Optimize name
OptimizeErrors ==
    {Err(kind, <<>>) : kind \in {"ErrInvalidItemsOrdered", "ErrInvalidPackSizes",
                                 "ErrOptimizationTooLarge", "errNoPackingPlan",
                                 "errReconstructPlan"}}

\* plan, err := service.Optimize(req.ItemsOrdered).  The function of one
\* argument is not among the sources, so the call is left open: it returns
\* what Optimize returns for the order on some pack sizes (those the service
\* holds among them), or any of the errors of the service without a plan.
ServiceOptimize(ordered) ==
    {Optimize(ordered, sizes) : sizes \in {GetPackSizes} \cup SetArgs}
    \cup {[plan |-> NoPlan, err |-> e] : e \in OptimizeErrors}

\* the response of handleOptimize to what Optimize returned
optimizeReply_TooLargeAsInternal(out) ==
    IF out.err # NoError
    THEN IF out.err.is \in {"ErrInvalidItemsOrdered", "ErrInvalidPackSizes"}
         THEN writeError(StatusBadRequest, out.err)
         ELSE writeError(StatusInternalServerError,
                         Text("unable to optimize pack breakdown"))
    ELSE writeJSON(StatusOK, out.plan)

\* the response of handleOptimize to what Optimize returned
optimizeReply(out) ==
    IF out.err # NoError
    THEN IF out.err.is \in {"ErrInvalidItemsOrdered", "ErrInvalidPackSizes",
                            "ErrOptimizationTooLarge"}
         THEN writeError(StatusBadRequest, out.err)
         ELSE writeError(StatusInternalServerError,
                         Text("unable to optimize pack breakdown"))
    ELSE writeJSON(StatusOK, out.plan)

\* handleOptimize: the responses it can write, each with what
\* service.Optimize returned if it was called
handleOptimize(r) ==
    IF r.method # "POST"
    THEN {[response |-> writeError(StatusMethodNotAllowed,
                                   Text("method not allowed")),
           outcome |-> <<>>]}
    ELSE LET d == decodeJSON(r.body, optimizeRequest) IN
         IF d.err # NoError
         THEN {[response |-> writeError(StatusBadRequest, d.err),
                outcome |-> <<>>]}
         ELSE {[response |-> optimizeReply(out), outcome |-> <<out>>] :
                   out \in ServiceOptimize(d.dst.items_ordered)}

\* the order quantities of the requests
OrderValues ==
    {GoInt(0), GoInt(21), GoInt(maxTableEntries), AboveInt32(1)}

\* a body of one JSON object
Object(names, ordered, sizes) ==
    [json |-> "object", trailing |-> FALSE, names |-> names,
     items_ordered |-> ordered, pack_sizes |-> sizes]

\* a body that is not a JSON object: null, an array, or nothing
NoObject(json) ==
    [json |-> json, trailing |-> FALSE, names |-> {},
     items_ordered |-> GoInt(0), pack_sizes |-> <<>>]

\* the bodies of the requests
Bodies ==
    {Object({"items_ordered"}, n, <<>>) : n \in OrderValues}
    \cup {Object({"pack_sizes"}, GoInt(0), l) : l \in SetArgs}
    \cup {Object({"items_ordered", "pack_sizes"}, GoInt(21), GoInts(<<1000>>)),
          Object({}, GoInt(0), <<>>),
          [Object({"items_ordered"}, GoInt(21), <<>>) EXCEPT !.trailing = TRUE],
          [Object({"pack_sizes"}, GoInt(0), GoInts(<<10, 20>>))
               EXCEPT !.trailing = TRUE],
          NoObject("null"), NoObject("other"), NoObject("none")}

\* the requests: one whose handler reads no body comes with none
Requests ==
    [method : {"POST"}, path : {"/api/optimize"}, body : Bodies]
    \cup [method : {"PUT"}, path : {"/api/pack-sizes"}, body : Bodies]
    \cup [method : {"GET", "PUT"}, path : {"/api/optimize"},
          body : {NoObject("none")}]
    \cup [method : {"GET", "POST"}, path : {"/api/pack-sizes"},
          body : {NoObject("none")}]

\* a request arrives on a connection
Receive(c) ==
    /\ http[c].pc = "idle"
    /\ \E r \in Requests :
          http' = [http EXCEPT ![c].pc = "received", ![c].request = r]
    /\ UNCHANGED <<arrays, stored, mu, applied, gor>>
    /\ UNCHANGED callVars

\* mux.HandleFunc("/api/optimize", h.handleOptimize)
HandleOptimize(c) ==
    /\ http[c].pc = "received"
    /\ http[c].request.path = "/api/optimize"
    /\ \E h \in handleOptimize(http[c].request) :
          http' = [http EXCEPT ![c].pc = "responded",
                               ![c].response = h.response,
                               ![c].outcome = h.outcome]
    /\ UNCHANGED <<arrays, stored, mu, applied, gor>>
    /\ UNCHANGED callVars

\* mux.HandleFunc("/api/pack-sizes", h.handlePackSizes), up to the
\* response of a GET or of an error, or up to the return of SetPackSizes
HandlePackSizes(c) ==
    /\ http[c].pc = "received"
    /\ http[c].request.path = "/api/pack-sizes"
    /\ LET r == http[c].request
           d == decodeJSON(r.body, packSizesPayload)
           n == NormalizePackSizes(d.dst.pack_sizes)
           a == NewAddr(arrays)
       IN  IF r.method \notin {"GET", "PUT"}
           THEN /\ http' = [http EXCEPT ![c].pc = "responded",
                               ![c].response =
                                   writeError(StatusMethodNotAllowed,
                                              Text("method not allowed"))]
                /\ UNCHANGED <<arrays, stored, applied>>
           ELSE IF r.method = "GET"
           THEN /\ http' = [http EXCEPT ![c].pc = "responded",
                               ![c].response = writeJSON(StatusOK,
                                                [pack_sizes |-> GetPackSizes])]
                /\ UNCHANGED <<arrays, stored, applied>>
           ELSE IF d.err # NoError
           THEN /\ http' = [http EXCEPT ![c].pc = "responded",
                               ![c].response =
                                   writeError(StatusBadRequest, d.err)]
                /\ UNCHANGED <<arrays, stored, applied>>
           ELSE IF n.err # NoError
           THEN /\ http' = [http EXCEPT ![c].pc = "responded",
                               ![c].response =
                                   IF n.err.is = "ErrInvalidPackSizes"
                                   THEN writeError(StatusBadRequest, n.err)
                                   ELSE writeError(StatusInternalServerError,
                                            Text("unable to update pack sizes"))]
                /\ UNCHANGED <<arrays, stored, applied>>
           ELSE /\ stored' = a
                /\ arrays' = Sweep(arrays @@ (a :> n.sizes), a, gor)
                /\ applied' = d.dst.pack_sizes
                /\ http' = [http EXCEPT ![c].pc = "stored"]
    /\ UNCHANGED <<mu, gor>>
    /\ UNCHANGED callVars

\* handlePackSizes after SetPackSizes has returned nil: the response holds
\* what GetPackSizes returns now
HandlePackSizesReply(c) ==
    /\ http[c].pc = "stored"
    /\ http' = [http EXCEPT ![c].pc = "responded",
                   ![c].response = writeJSON(StatusOK,
                                       [pack_sizes |-> GetPackSizes])]
    /\ UNCHANGED <<arrays, stored, mu, applied, gor>>
    /\ UNCHANGED callVars

\* the response has been sent
Finish(c) ==
    /\ http[c].pc = "responded"
    /\ http' = [http EXCEPT ![c] = IdleHandler]
    /\ UNCHANGED <<arrays, stored, mu, applied, gor>>
    /\ UNCHANGED callVars

NextBackend ==
    \E c \in Conns :
        \/ Receive(c)
        \/ HandleOptimize(c)
        \/ HandlePackSizes(c)
        \/ HandlePackSizesReply(c)
        \/ Finish(c)

SpecBackend == Init /\ [][NextBackend]_vars

(***************************************************************************)
(* What the claims speak of, defined without the table.                    *)
(***************************************************************************)
\* the values of a sequence
Range(s) == {s[i] : i \in DOMAIN s}

\* the supplied pack sizes as a set of integers (they are valid when a Plan
\* is returned)
SuppliedSizes == {ToInt(packSizes[i]) : i \in DOMAIN packSizes}

RECURSIVE Combinations(_, _)
\* every non-negative integer combination of the sizes S with item sum T:
\* the functions c from S to counts with the sum of s * c[s] equal to T
Combinations(S, T) ==
    IF S = {} THEN (IF T = 0 THEN {<<>>} ELSE {})
    ELSE LET s == CHOOSE x \in S : TRUE IN
         UNION {{c @@ (s :> k) : c \in Combinations(S \ {s}, T - k * s)} :
                   k \in 0..(T \div s)}

RECURSIVE PackCount(_)
\* the number of packs of a combination
PackCount(c) ==
    IF DOMAIN c = {} THEN 0
    ELSE LET s == CHOOSE x \in DOMAIN c : TRUE IN
         c[s] + PackCount([x \in DOMAIN c \ {s} |-> c[x]])

RECURSIVE SumItems(_, _)
\* the sum of Size * Count over the entries i.. of a breakdown
SumItems(packs, i) ==
    IF i > Len(packs) THEN 0
    ELSE packs[i].Size * packs[i].Count + SumItems(packs, i + 1)

RECURSIVE SumCounts(_, _)
\* the sum of Count over the entries i.. of a breakdown
SumCounts(packs, i) ==
    IF i > Len(packs) THEN 0 ELSE packs[i].Count + SumCounts(packs, i + 1)

RECURSIVE Ascending(_)
\* the values of a set of Go ints, listed in ascending order
Ascending(S) ==
    IF S = {} THEN <<>>
    ELSE LET m == CHOOSE x \in S : \A y \in S : ~Less(y, x) IN
         <<m>> \o Ascending(S \ {m})

\* a sequence in reverse order
Reversed(s) == [i \in 1..Len(s) |-> s[Len(s) + 1 - i]]

\* a pack size that passes validation: in 1..2^31-1
ValidSize(a) == a.hi = 0 /\ a.lo >= 1

\* a non-empty list of valid pack sizes
ValidList(x) == Len(x) > 0 /\ \A i \in DOMAIN x : ValidSize(x[i])

\* an order quantity that passes validation: in 1..2^31-1
ValidOrder(a) == a.hi = 0 /\ a.lo >= 1

\* the call has returned a Plan
Planned == pc = "done" /\ result.err = NoError

\* the call is past the order-quantity check
PastValidate == pc \notin {"idle", "validate"}

\* the call is past NormalizePackSizes, which it has called
PastNormalize == pc \notin {"idle", "validate", "normalize"} /\ ValidOrder(itemsOrdered)

\* two results of Optimize are the same outcome
SameOutcome(a, b) == a.plan = b.plan /\ a.err.is = b.err.is

(***************************************************************************)
(* C1: when Optimize returns a Plan, TotalItems is the smallest integer    *)
(* T >= itemsOrdered that some non-negative integer combination of the     *)
(* supplied pack sizes sums to, over all combinations whatsoever.          *)
(***************************************************************************)
C1_SmallestReachableTotal ==
    Planned =>
        LET T == result.plan.TotalItems
            n == ToInt(itemsOrdered)
        IN  /\ T >= n
            /\ Combinations(SuppliedSizes, T) # {}
            /\ \A U \in n..(T - 1) : Combinations(SuppliedSizes, U) = {}

\* a plan that overshoots an order no combination of two or more sizes meets
C1_Witness ==
    /\ Planned
    /\ Cardinality(SuppliedSizes) >= 2
    /\ result.plan.TotalItems >= ToInt(itemsOrdered) + 2

(***************************************************************************)
(* C2: when Optimize returns a Plan, TotalPacks is the minimum number of   *)
(* packs over all combinations of the supplied sizes whose item sum is     *)
(* exactly TotalItems.                                                     *)
(***************************************************************************)
C2_FewestPacksForTotal ==
    Planned =>
        LET all == Combinations(SuppliedSizes, result.plan.TotalItems) IN
        /\ \E c \in all : PackCount(c) = result.plan.TotalPacks
        /\ \A c \in all : PackCount(c) >= result.plan.TotalPacks

\* a plan whose total is reached by combinations of different pack counts
C2_Witness ==
    /\ Planned
    /\ \E c, d \in Combinations(SuppliedSizes, result.plan.TotalItems) :
          PackCount(c) = result.plan.TotalPacks /\ PackCount(d) > PackCount(c) + 1

(***************************************************************************)
(* C3: no underfill: when Optimize returns a Plan, TotalItems is at least  *)
(* ItemsOrdered, and ItemsOrdered is the itemsOrdered argument.            *)
(***************************************************************************)
C3_NoUnderfill ==
    Planned =>
        /\ result.plan.TotalItems >= result.plan.ItemsOrdered
        /\ GoInt(result.plan.ItemsOrdered) = itemsOrdered

\* a plan for an order that the smallest reachable totals fall short of
C3_Witness ==
    /\ Planned
    /\ ToInt(itemsOrdered) >= 2
    /\ \E s \in SuppliedSizes : s < ToInt(itemsOrdered)

(***************************************************************************)
(* C4: the breakdown of a returned Plan is consistent: the sum of          *)
(* Size * Count over Packs is TotalItems and the sum of Count is           *)
(* TotalPacks.                                                             *)
(***************************************************************************)
C4_BreakdownSums ==
    Planned =>
        /\ SumItems(result.plan.Packs, 1) = result.plan.TotalItems
        /\ SumCounts(result.plan.Packs, 1) = result.plan.TotalPacks

\* a plan of two sizes, one of them used more than once
C4_Witness ==
    /\ Planned
    /\ Len(result.plan.Packs) >= 2
    /\ \E i \in DOMAIN result.plan.Packs : result.plan.Packs[i].Count >= 2

(***************************************************************************)
(* C5: Packs of a returned Plan is strictly descending by Size (so no Size *)
(* appears twice), every Count is positive and every Size is a supplied    *)
(* pack size.                                                              *)
(***************************************************************************)
C5_BreakdownOrdered ==
    Planned =>
        LET packs == result.plan.Packs IN
        /\ \A i, j \in DOMAIN packs : i < j => packs[i].Size > packs[j].Size
        /\ \A i \in DOMAIN packs : packs[i].Count > 0
        /\ \A i \in DOMAIN packs : packs[i].Size \in SuppliedSizes

\* a plan of two sizes that leaves a supplied size unused, for sizes supplied
\* in ascending order
C5_Witness ==
    /\ Planned
    /\ Len(result.plan.Packs) = 2
    /\ Cardinality(SuppliedSizes) = 3
    /\ Less(packSizes[1], packSizes[2])

(***************************************************************************)
(* C6: Optimize depends only on the set of pack sizes: the returned        *)
(* outcome (the Plan, or the kind of error) is the outcome for the         *)
(* ascending list of that set, which every list with the same set of       *)
(* values therefore shares, and it is the outcome for the normalized list. *)
(***************************************************************************)
C6_DependsOnSetOnly ==
    pc = "done" =>
        /\ SameOutcome(result, Optimize(itemsOrdered, Ascending(Range(packSizes))))
        /\ SameOutcome(result,
                       Optimize(itemsOrdered, NormalizePackSizes(packSizes).sizes))

\* a plan of two sizes for a list that is neither ascending nor descending
\* and holds a duplicate
C6_Witness ==
    /\ Planned
    /\ Len(result.plan.Packs) = 2
    /\ Len(packSizes) = 3
    /\ Less(packSizes[1], packSizes[2])
    /\ packSizes[3] = packSizes[1]

(***************************************************************************)
(* C7: NormalizePackSizes is idempotent and insensitive to the order and   *)
(* the duplicates of its input: for a valid list, normalizing the result   *)
(* again, the ascending list of the same values, the reversed list or the  *)
(* list with an element repeated gives the same result.                    *)
(***************************************************************************)
C7_NormalizeIdempotent ==
    (PastNormalize /\ ValidList(packSizes)) =>
        LET r == [err |-> NoError, sizes |-> normalized] IN
        /\ NormalizePackSizes(normalized) = r
        /\ NormalizePackSizes(Ascending(Range(packSizes))) = r
        /\ NormalizePackSizes(Reversed(packSizes)) = r
        /\ \A i \in DOMAIN packSizes :
              NormalizePackSizes(<<packSizes[i]>> \o packSizes) = r

\* three distinct sizes supplied out of order have been normalized
C7_Witness ==
    /\ pc = "newTable"
    /\ Len(normalized) = 3
    /\ Less(packSizes[1], packSizes[3])
    /\ Less(packSizes[3], packSizes[2])

(***************************************************************************)
(* C8: for a non-empty list of sizes in 1..2^31-1, NormalizePackSizes      *)
(* succeeds, and its result is strictly descending and has exactly the     *)
(* values of the input.                                                    *)
(***************************************************************************)
C8_NormalizeSortedSameSet ==
    (PastNormalize /\ ValidList(packSizes)) =>
        /\ result.err.is # "ErrInvalidPackSizes"
        /\ \A i, j \in DOMAIN normalized :
              i < j => Less(normalized[j], normalized[i])
        /\ Range(normalized) = Range(packSizes)

\* a list with a duplicate and the largest int32 has been normalized
C8_Witness ==
    /\ pc = "newTable"
    /\ Len(packSizes) = 3
    /\ Len(normalized) = 2
    /\ GoInt(maxInt32Value) \in Range(normalized)

(***************************************************************************)
(* C9: when the pack-size list is empty or holds an element <= 0 or        *)
(* > 2^31-1, at any position, NormalizePackSizes and Optimize (called with *)
(* a valid itemsOrdered) return an error matching ErrInvalidPackSizes, and *)
(* neither a normalized list nor a Plan.                                   *)
(***************************************************************************)
C9_InvalidPackSizesRejected ==
    (PastNormalize /\ ~ValidList(packSizes)) =>
        /\ pc = "done"
        /\ result.err.is = "ErrInvalidPackSizes"
        /\ result.plan = NoPlan
        /\ normalized = <<>>
        /\ NormalizePackSizes(packSizes).err.is = "ErrInvalidPackSizes"
        /\ NormalizePackSizes(packSizes).sizes = <<>>

\* a call has failed on a list whose only invalid element is the last of
\* three
C9_Witness ==
    /\ pc = "done"
    /\ ValidOrder(itemsOrdered)
    /\ Len(packSizes) = 3
    /\ ValidSize(packSizes[1])
    /\ ValidSize(packSizes[2])
    /\ ~ValidSize(packSizes[3])

(***************************************************************************)
(* C10: when itemsOrdered is <= 0 or > 2^31-1, Optimize returns an error   *)
(* matching ErrInvalidItemsOrdered whatever the pack sizes are: the check  *)
(* of the order quantity comes before the validation of the pack sizes     *)
(* and before the check of the table size.                                 *)
(***************************************************************************)
C10_InvalidItemsOrderedFirst ==
    (PastValidate /\ ~ValidOrder(itemsOrdered)) =>
        /\ pc = "done"
        /\ result.err.is = "ErrInvalidItemsOrdered"
        /\ result.plan = NoPlan

\* a call with an order above 2^31-1 and an invalid pack-size list has
\* returned
C10_Witness ==
    /\ pc = "done"
    /\ Less(GoInt(maxInt32Value), itemsOrdered)
    /\ ~ValidList(packSizes)

\* the largest of a non-empty set of integers
Largest(S) == CHOOSE x \in S : \A y \in S : y <= x

\* the smallest of a non-empty set of integers
Smallest(S) == CHOOSE x \in S : \A y \in S : x <= y

\* n + L exceeds maxTableEntries, for n and L in 1..2^31-1
ExceedsTable(n, L) == L > maxTableEntries \/ n > maxTableEntries - L

\* the call is past the range check of newPackingTable
PastRangeCheck ==
    /\ pc \in {"fill", "choose", "breakdown", "done", "limited"}
    /\ ValidOrder(itemsOrdered)
    /\ ValidList(packSizes)

(***************************************************************************)
(* C11: for a valid order and valid pack sizes with largest size L,        *)
(* Optimize fails with ErrOptimizationTooLarge exactly when                *)
(* itemsOrdered + L exceeds maxTableEntries, and when it fails this way    *)
(* no table has been allocated.                                            *)
(***************************************************************************)
C11_TooLargeExactlyAboveLimit ==
    PastRangeCheck =>
        LET tooBig == ExceedsTable(ToInt(itemsOrdered), Largest(SuppliedSizes)) IN
        /\ (result.err.is = "ErrOptimizationTooLarge") <=> tooBig
        /\ tooBig => table = NoTable
        /\ (~tooBig /\ pc # "limited") => TableLen(table) = 
              ToInt(itemsOrdered) + Largest(SuppliedSizes)

\* a whole call failed for a table of maxTableEntries + 1 entries
C11_Witness ==
    /\ pc = "done"
    /\ result.err.is = "ErrOptimizationTooLarge"
    /\ itemsOrdered = GoInt(maxTableEntries)
    /\ Range(packSizes) = {GoInt(1)}

\* the call holds a filled table
Filled == pc \in {"choose", "breakdown"} \/ (pc = "done" /\ table # NoTable)

RECURSIVE PointerChain(_, _)
\* the totals above 0 that the pointers of t lead through, from tot down
PointerChain(t, tot) ==
    IF tot <= 0 THEN {}
    ELSE IF t.prevTotal[tot] < 0 \/ t.prevTotal[tot] >= tot THEN {tot}
    ELSE {tot} \cup PointerChain(t, t.prevTotal[tot])

(***************************************************************************)
(* C12: for a valid order and a valid pack-size list with                  *)
(* itemsOrdered + largest size <= maxTableEntries, Optimize returns a Plan *)
(* and neither errNoPackingPlan nor errReconstructPlan: the filled table   *)
(* has a reachable total in itemsOrdered..fulfillmentLimit and the         *)
(* pointers from the chosen total never meet a non-positive prevPack.      *)
(***************************************************************************)
C12_NoInternalError ==
    /\ (pc = "done" /\ ValidOrder(itemsOrdered) /\ ValidList(packSizes)
          /\ ~ExceedsTable(ToInt(itemsOrdered), Largest(SuppliedSizes)))
         => /\ result.err = NoError
            /\ result.plan # NoPlan
    /\ pc = "done" => result.err.is \notin {"errNoPackingPlan", "errReconstructPlan"}
    /\ Filled =>
          \E t \in table.itemsOrdered..table.fulfillmentLimit :
             table.minPacks[t] # table.unreachablePacks
    /\ pc = "breakdown" =>
          \A t \in PointerChain(table, chosenTotal) : table.prevPack[t] > 0

\* a plan whose total is the last entry of the table, reached in several hops
C12_Witness ==
    /\ Planned
    /\ result.plan.TotalItems = table.fulfillmentLimit
    /\ result.plan.TotalItems > ToInt(itemsOrdered)
    /\ result.plan.TotalPacks >= 2

\* the entry of t for tot holds a pack count
Reached(t, tot) == t.minPacks[tot] # t.unreachablePacks

\* the pack sizes that reach tot from a reached total with the count of tot
TiedPacks(t, tot) ==
    {p \in Range(t.sortedPackSizes) :
        /\ tot - p >= 0
        /\ Reached(t, tot - p)
        /\ t.minPacks[tot - p] + 1 = t.minPacks[tot]}

RECURSIVE HopsWith(_, _, _)
\* the number of packs of size s on the way from tot down to 0 that takes
\* the largest of the tied packs at every total
HopsWith(t, tot, s) ==
    IF tot <= 0 \/ TiedPacks(t, tot) = {} THEN 0
    ELSE LET p == Largest(TiedPacks(t, tot)) IN
         (IF p = s THEN 1 ELSE 0) + HopsWith(t, tot - p, s)

RECURSIVE CountIn(_, _, _)
\* the count a breakdown reports for size s, over its entries i..
CountIn(packs, s, i) ==
    IF i > Len(packs) THEN 0
    ELSE (IF packs[i].Size = s THEN packs[i].Count ELSE 0) + CountIn(packs, s, i + 1)

(***************************************************************************)
(* C18: tie-break of the table fill: in the filled table, for every        *)
(* reached total t >= 1, prevPack[t] is the largest pack size p with       *)
(* t - p >= 0, t - p reached and minPacks[t - p] + 1 = minPacks[t]; the    *)
(* reported breakdown is the one these largest-first pointers give.        *)
(***************************************************************************)
C18_LargestPackWinsTies ==
    /\ Filled =>
          \A t \in 1..table.fulfillmentLimit :
             Reached(table, t) =>
                /\ TiedPacks(table, t) # {}
                /\ table.prevPack[t] = Largest(TiedPacks(table, t))
    /\ Planned =>
          \A s \in Range(table.sortedPackSizes) :
             CountIn(result.plan.Packs, s, 1) =
                HopsWith(table, result.plan.TotalItems, s)

\* a plan whose total is reached with the same count through three sizes
C18_Witness ==
    /\ Planned
    /\ Cardinality(TiedPacks(table, result.plan.TotalItems)) >= 3

\* the fewest packs of a combination of the sizes S with item sum T
MinPackCount(S, T) == Smallest({PackCount(c) : c \in Combinations(S, T)})

(***************************************************************************)
(* C19: minPacks[0] = 0 from the allocation of the table to the end of the *)
(* call, and in the filled table minPacks[t] is, for every t in            *)
(* 0..fulfillmentLimit, the fewest packs summing exactly to t when t is a  *)
(* combination of the pack sizes and the unreachable sentinel exactly when *)
(* it is not.                                                              *)
(***************************************************************************)
C19_TableCorrect ==
    /\ table # NoTable => table.minPacks[0] = 0
    /\ Filled =>
          \A t \in 0..table.fulfillmentLimit :
             IF Combinations(Range(table.sortedPackSizes), t) # {}
             THEN /\ table.minPacks[t] = MinPackCount(Range(table.sortedPackSizes), t)
                  /\ Reached(table, t)
             ELSE table.minPacks[t] = table.unreachablePacks

\* a filled table with a total no combination reaches and a total that
\* combinations of different pack counts reach
C19_Witness ==
    /\ pc = "choose"
    /\ \E t \in 1..table.fulfillmentLimit : ~Reached(table, t)
    /\ \E t \in 1..table.fulfillmentLimit :
          \E c, d \in Combinations(Range(table.sortedPackSizes), t) :
             PackCount(c) # PackCount(d)

(***************************************************************************)
(* C20: the sentinel unreachablePacks is fulfillmentLimit / smallest pack  *)
(* size + 1 and exceeds every pack count of the table: every stored count  *)
(* and the fewest packs of every total a combination reaches are at most   *)
(* fulfillmentLimit / smallest pack size, so the entry of such a total is  *)
(* never the sentinel.                                                     *)
(***************************************************************************)
C20_SentinelAboveEveryCount ==
    table # NoTable =>
        LET sizes == Range(table.sortedPackSizes)
            worst == table.fulfillmentLimit \div Smallest(sizes)
        IN  /\ table.unreachablePacks = worst + 1
            /\ \A t \in 0..table.fulfillmentLimit :
                  Reached(table, t) => table.minPacks[t] <= worst
            /\ Filled =>
                  \A t \in 0..table.fulfillmentLimit :
                     Combinations(sizes, t) # {} =>
                        /\ MinPackCount(sizes, t) <= worst
                        /\ Reached(table, t)

\* a filled table of two sizes with a count one below the sentinel
C20_Witness ==
    /\ pc = "choose"
    /\ Len(table.sortedPackSizes) >= 2
    /\ \E t \in 1..table.fulfillmentLimit :
          table.minPacks[t] = table.unreachablePacks - 1

(***************************************************************************)
(* C13: Optimize returns, for each documented scenario, exactly the        *)
(* documented total, pack count and breakdown.                             *)
(***************************************************************************)
C13_DocumentedScenarios ==
    pc = "done" =>
        \E s \in Scenarios :
           /\ itemsOrdered = GoInt(s.ordered)
           /\ packSizes = [i \in 1..Len(s.sizes) |-> GoInt(s.sizes[i])]
           /\ result = [plan |-> s.plan, err |-> NoError]

\* the call for 13 items with the sizes 6 and 10 has returned its plan
C13_Witness ==
    /\ pc = "done"
    /\ itemsOrdered = GoInt(13)
    /\ packSizes = GoInts(<<6, 10>>)
    /\ result.plan.TotalItems = 16
    /\ result.plan.TotalPacks = 2

\* the strictly descending list of the values of a list of Go ints
Descending(x) == Reversed(Ascending(Range(x)))

\* non-empty, positive and strictly descending
WellFormedSizes(x) ==
    /\ Len(x) > 0
    /\ \A i \in DOMAIN x : ValidSize(x[i])
    /\ \A i \in 1..(Len(x) - 1) : Less(x[i + 1], x[i])

(***************************************************************************)
(* C15: GetPackSizes returns a private copy.  (a) The slice a caller was   *)
(* given holds what GetPackSizes returned and what the caller itself wrote *)
(* into it since, whatever SetPackSizes calls were made or are in progress;*)
(* (b) what callers write into their slices changes neither the stored     *)
(* configuration, which stays the normalized argument of the last          *)
(* assignment, nor the slice of another caller: no returned slice shares   *)
(* its array with the service or with another caller.                      *)
(***************************************************************************)
C15_SnapshotIsolation ==
    /\ arrays[stored] = Descending(applied)
    /\ \A g \in Goroutines :
          gor[g].held # 0 =>
              /\ arrays[gor[g].held] = gor[g].snap
              /\ gor[g].held # stored
              /\ \A h \in Goroutines \ {g} : gor[h].held # gor[g].held

\* a caller has written into the slice it was given and SetPackSizes has
\* replaced the configuration since, which another caller has read
C15_Witness ==
    \E g \in Goroutines : \E h \in Goroutines \ {g} :
        /\ applied = GoInts(<<10, 20>>)
        /\ gor[g].held # 0
        /\ gor[g].snap = <<GoInt(7), GoInt(2000), GoInt(1000), GoInt(500),
                           GoInt(250)>>
        /\ gor[h].held # 0
        /\ gor[h].snap = GoInts(<<20, 10>>)

(***************************************************************************)
(* C17: the slice GetPackSizes is about to return is the normalized        *)
(* (strictly descending, duplicate-free) list of the argument of the last  *)
(* SetPackSizes that assigned s.packSizes, in lock order, or of the        *)
(* initial sizes if none did; so it is non-empty, positive and strictly    *)
(* descending, and never a mixture of two configurations.                  *)
(***************************************************************************)
C17_GetReturnsLastSet ==
    \A g \in Goroutines :
        gor[g].pc = "get_copied" =>
            /\ gor[g].saw = applied
            /\ arrays[gor[g].buf] = Descending(applied)
            /\ WellFormedSizes(arrays[gor[g].buf])

\* GetPackSizes has copied a configuration that SetPackSizes installed while
\* another SetPackSizes waits for the lock
C17_Witness ==
    \E g \in Goroutines : \E h \in Goroutines \ {g} :
        /\ gor[g].pc = "get_copied"
        /\ gor[g].saw = GoInts(<<10, 20>>)
        /\ arrays[gor[g].buf] = GoInts(<<20, 10>>)
        /\ gor[h].pc = "set_normalized"
        /\ gor[h].arg = GoInts(<<250>>)

\* the handler of connection c has answered a request to /api/optimize
OptimizeHandled(c) ==
    http[c].pc = "responded" /\ http[c].request.path = "/api/optimize"

\* the three errors of the caller's input
InputErrors ==
    {"ErrInvalidItemsOrdered", "ErrInvalidPackSizes", "ErrOptimizationTooLarge"}

(***************************************************************************)
(* C14: the optimize handler answers an Optimize error that matches        *)
(* ErrInvalidItemsOrdered, ErrInvalidPackSizes or ErrOptimizationTooLarge  *)
(* with 400 and every other Optimize error with 500, and it answers 200    *)
(* with the Plan exactly when Optimize returned no error: for every error  *)
(* Optimize can return, and in every request the handler passed on to      *)
(* Optimize.                                                               *)
(***************************************************************************)
C14_StatusOfOptimizeError ==
    /\ \A e \in OptimizeErrors :
          optimizeReply([plan |-> NoPlan, err |-> e]).status =
              IF e.is \in InputErrors THEN StatusBadRequest
              ELSE StatusInternalServerError
    /\ \A c \in Conns :
          /\ (OptimizeHandled(c) /\ http[c].outcome # <<>>) =>
                LET out == http[c].outcome[1]
                    res == http[c].response
                IN  /\ out.err = NoError =>
                          res.status = StatusOK /\ res.body = out.plan
                    /\ (out.err # NoError /\ out.err.is \in InputErrors) =>
                          res.status = StatusBadRequest
                    /\ (out.err # NoError /\ out.err.is \notin InputErrors) =>
                          res.status = StatusInternalServerError
          /\ (OptimizeHandled(c) /\ http[c].response.status = StatusOK) =>
                (http[c].outcome # <<>> /\ http[c].outcome[1].err = NoError)

\* an order too large for the configured sizes was answered with 400
C14_Witness ==
    \E c \in Conns :
        /\ OptimizeHandled(c)
        /\ http[c].outcome # <<>>
        /\ http[c].outcome[1].err.is = "ErrOptimizationTooLarge"
        /\ http[c].response.status = StatusBadRequest

\* the totals the first loop of buildBreakdown visits, from chosenTotal down
Hops == PointerChain(table, chosenTotal)

(***************************************************************************)
(* C21: in the filled table, for every reached total t > 0, prevPack[t] is *)
(* one of the pack sizes, prevTotal[t] = t - prevPack[t] >= 0, prevTotal[t]*)
(* is reached and holds one pack less than t; so the first loop of         *)
(* buildBreakdown, started at the chosen total, visits strictly decreasing *)
(* totals, ends at 0 and makes exactly minPacks[chosenTotal] hops, which   *)
(* is the number of packs the breakdown reports.                           *)
(***************************************************************************)
C21_BacktrackWellFormed ==
    /\ Filled =>
          \A t \in 1..table.fulfillmentLimit :
             Reached(table, t) =>
                /\ table.prevPack[t] \in Range(table.sortedPackSizes)
                /\ table.prevTotal[t] = t - table.prevPack[t]
                /\ table.prevTotal[t] >= 0
                /\ Reached(table, table.prevTotal[t])
                /\ table.minPacks[table.prevTotal[t]] = table.minPacks[t] - 1
    /\ (pc = "breakdown" \/ Planned) =>
          /\ \A u \in Hops :
                table.prevTotal[u] >= 0 /\ table.prevTotal[u] < u
          /\ \E u \in Hops : table.prevTotal[u] = 0
          /\ Cardinality(Hops) = table.minPacks[chosenTotal]
    /\ Planned =>
          SumCounts(result.plan.Packs, 1) = table.minPacks[chosenTotal]

\* a plan of three or more packs of two or more sizes
C21_Witness ==
    /\ Planned
    /\ result.plan.TotalPacks >= 3
    /\ Len(result.plan.Packs) >= 2
    /\ Cardinality(Hops) = result.plan.TotalPacks

(***************************************************************************)
(* C22: for every Plan Optimize returns, TotalItems - ItemsOrdered is at   *)
(* most the smallest pack size minus 1, hence TotalItems is at most        *)
(* FulfillmentLimit = itemsOrdered + largest pack size - 1; and with a     *)
(* single pack size S the plan is ceil(itemsOrdered / S) packs of S.       *)
(***************************************************************************)
C22_OverfillBelowSmallest ==
    Planned =>
        LET n == ToInt(itemsOrdered)
            plan == result.plan
        IN  /\ plan.ItemsOrdered = n
            /\ plan.TotalItems - plan.ItemsOrdered <= Smallest(SuppliedSizes) - 1
            /\ table.fulfillmentLimit = n + Largest(SuppliedSizes) - 1
            /\ plan.TotalItems <= table.fulfillmentLimit
            /\ Cardinality(SuppliedSizes) = 1 =>
                  LET S == Smallest(SuppliedSizes)
                      packs == (n + S - 1) \div S
                  IN  /\ plan.Packs = <<[Size |-> S, Count |-> packs]>>
                      /\ plan.TotalPacks = packs
                      /\ plan.TotalItems = packs * S

\* a plan for sizes that differ, overfilled by the smallest size minus 1
C22_Witness ==
    /\ Planned
    /\ Cardinality(SuppliedSizes) >= 2
    /\ Smallest(SuppliedSizes) >= 3
    /\ result.plan.TotalItems - result.plan.ItemsOrdered
          = Smallest(SuppliedSizes) - 1

\* goroutine g is in SetPackSizes, past NormalizePackSizes
Setting(g) == gor[g].pc \in {"set_normalized", "set_locked", "set_assigned"}

\* this step is a SetPackSizes of goroutine g that returns an error
Rejects(g) ==
    /\ gor[g].pc = "idle"
    /\ gor'[g].pc = "idle"
    /\ gor[g].err = NoError
    /\ gor'[g].err # NoError

\* the configuration stays as it is in this step
ConfigurationUnchanged ==
    /\ stored' = stored
    /\ arrays'[stored'] = arrays[stored]
    /\ applied' = applied

(***************************************************************************)
(* C23: a SetPackSizes that returns an error leaves the stored pack sizes  *)
(* exactly as they were: the step that returns the error changes neither   *)
(* s.packSizes nor its elements, the error matches ErrInvalidPackSizes,    *)
(* and only valid lists (non-empty, every value in 1..2^31-1) ever get     *)
(* past normalization or become the configuration, which is always the     *)
(* normalized argument of the last accepted call.                          *)
(***************************************************************************)
C23_RejectedSetChangesNothing ==
    /\ [][\A g \in Goroutines : Rejects(g) => ConfigurationUnchanged]_vars
    /\ [](/\ ValidList(applied)
          /\ arrays[stored] = Descending(applied)
          /\ \A g \in Goroutines :
                /\ Setting(g) => ValidList(gor[g].arg)
                /\ gor[g].err # NoError =>
                      gor[g].err.is = "ErrInvalidPackSizes")

\* a caller whose SetPackSizes was rejected holds the configuration another
\* SetPackSizes installed
C23_Witness ==
    \E g \in Goroutines :
        /\ gor[g].pc = "idle"
        /\ gor[g].err = Err("ErrInvalidPackSizes",
                            <<AboveInt32(1), GoInt(maxInt32Value)>>)
        /\ applied = GoInts(<<10, 20>>)
        /\ gor[g].held # 0
        /\ arrays[gor[g].held] = GoInts(<<20, 10>>)

\* Optimize called again with the total of the returned Plan as the order
Reoptimized == Optimize(GoInt(result.plan.TotalItems), packSizes)

\* the filled table of that second call
ReoptimizedTable ==
    buildOptimalPackingTable(
        newPackingTable(GoInt(result.plan.TotalItems), normalized).table)

(***************************************************************************)
(* C24: the returned Plan is a fixpoint of Optimize: optimizing its        *)
(* TotalItems with the same pack sizes, unless that fails with             *)
(* ErrOptimizationTooLarge, returns a Plan with the same TotalItems (no    *)
(* overfill), the same TotalPacks and the same Packs; the table of the     *)
(* second call, longer than that of the first, reaches the same totals of  *)
(* the first with the same counts and the same pointers.                   *)
(***************************************************************************)
C24_PlanIsFixpoint ==
    Planned =>
        (Reoptimized.err.is # "ErrOptimizationTooLarge" =>
            /\ Reoptimized.err = NoError
            /\ Reoptimized.plan.ItemsOrdered = result.plan.TotalItems
            /\ Reoptimized.plan.TotalItems = result.plan.TotalItems
            /\ Reoptimized.plan.TotalPacks = result.plan.TotalPacks
            /\ Reoptimized.plan.Packs = result.plan.Packs
            /\ ReoptimizedTable.fulfillmentLimit >= table.fulfillmentLimit
            /\ \A t \in 0..table.fulfillmentLimit :
                  /\ Reached(ReoptimizedTable, t) <=> Reached(table, t)
                  /\ Reached(table, t) =>
                        /\ ReoptimizedTable.minPacks[t] = table.minPacks[t]
                        /\ ReoptimizedTable.prevTotal[t] = table.prevTotal[t]
                        /\ ReoptimizedTable.prevPack[t] = table.prevPack[t])

\* an overfilled plan of two sizes, whose total a longer table reaches as well
C24_Witness ==
    /\ Planned
    /\ result.plan.TotalItems > result.plan.ItemsOrdered
    /\ Len(result.plan.Packs) >= 2
    /\ Reoptimized.err = NoError
    /\ ReoptimizedTable.fulfillmentLimit > table.fulfillmentLimit

\* fulfillmentLimit64 of the call
Limit64 == AddMinusOne(itemsOrdered, GoInt(Largest(SuppliedSizes)))

\* the Go int v is n + L - 1, for n and L in 1..2^31-1: taking L - 1 away
\* from v gives n
IsSumMinusOne(v, n, L) ==
    \/ v.hi = 0 /\ v.lo >= L - 1 /\ v.lo - (L - 1) = n
    \/ v.hi = 1 /\ v.lo <= L - 2 /\ (maxInt32Value - (L - 1)) + v.lo = n - 1

(***************************************************************************)
(* C25: for itemsOrdered and largest pack size in 1..2^31-1, the 64-bit    *)
(* value itemsOrdered + largestPackSize - 1 is exact and lies in           *)
(* 1..2^32-3, so the branch for a limit <= 0 is never taken; and whenever  *)
(* the table is allocated, fulfillmentLimit as an int is that value and    *)
(* the table has exactly fulfillmentLimit + 1 <= maxTableEntries entries.  *)
(***************************************************************************)
C25_LimitArithmeticInRange ==
    PastRangeCheck =>
        /\ IsSumMinusOne(Limit64, ToInt(itemsOrdered), Largest(SuppliedSizes))
        /\ Less(GoInt(0), Limit64)
        /\ Limit64.hi = 1 => Limit64.lo <= maxInt32Value - 2
        /\ RangeError(Limit64) # Err("ErrOptimizationTooLarge", <<>>)
        /\ result.err # Err("ErrOptimizationTooLarge", <<>>)
        /\ table # NoTable =>
              /\ Limit64.hi = 0
              /\ table.fulfillmentLimit = Limit64.lo
              /\ TableLen(table) = table.fulfillmentLimit + 1
              /\ TableLen(table) <= maxTableEntries

\* the largest order with the largest pack size: a limit of 2^32-3, refused
\* for its 2^32-2 table entries
C25_Witness ==
    /\ pc = "limited"
    /\ itemsOrdered = GoInt(maxInt32Value)
    /\ SuppliedSizes = {maxInt32Value}
    /\ Limit64 = [hi |-> 1, lo |-> maxInt32Value - 2]
    /\ result.err = Err("ErrOptimizationTooLarge",
                        <<[hi |-> 1, lo |-> maxInt32Value - 1],
                          GoInt(maxTableEntries)>>)

====
